---------------------------- MODULE Spec2Model ----------------------------
(***************************************************************************)
(* Model of n8n-timings.py: the looped-node analysis                       *)
(* (N8nLoopedNodeAnalyzer.analyze_looped_execution), the summary report,   *)
(* and the interactive plot viewer (InteractivePlotViewer) with its        *)
(* keyboard navigation and its timeline builder.                           *)
(*                                                                         *)
(* Python values are modelled as follows.                                  *)
(*   None      the record [tag |-> "None"]                                 *)
(*   float     an exact rational [num, den] in lowest terms, den > 0       *)
(*             (binary rounding of floats is not modelled)                 *)
(*   datetime  [tag |-> "datetime", epoch_ms, tzinfo]                      *)
(*   dict      with optional keys: a function whose DOMAIN is the key set; *)
(*             where iteration order matters (runData, node_summary,       *)
(*             timeline_data): the sequence of its items [key, value]      *)
(*   list      a sequence                                                  *)
(***************************************************************************)
EXTENDS Integers, Sequences, FiniteSets, TLC

VARIABLES
    pc,             \* position in main(), lines 598-604, and in the viewer
    execution_data, \* the fetched execution document, line 598
    analysis,       \* result of analyze_looped_execution, line 602
    output,         \* what the report and the visualization print
    node_names,     \* InteractivePlotViewer.node_names, line 55
    data,           \* InteractivePlotViewer.data, lines 56-62
    workflow_structure, \* InteractivePlotViewer.workflow_structure, line 65
    current_plot,   \* InteractivePlotViewer.current_plot, line 30
    figure,         \* the figure last drawn by create_plot, lines 107-118
    timeline_data,  \* the mapping last returned by build_execution_timeline
    last_key,       \* event.key of the last key press handled, line 288
    advances        \* history: number of consecutive next_plot calls made
                    \* since the index was 0 with no other event in between,
                    \* -1 when another event intervened away from index 0

vars == <<pc, execution_data, analysis, output, node_names, data,
          workflow_structure, current_plot, figure, timeline_data, last_key, advances>>

(***************************************************************************)
(* Bounds of the model.                                                    *)
(***************************************************************************)
\* largest number of attempts in the run data of one analysed document
MaxAttempts == 2
\* largest number of attempts in a document shown in the interactive viewer
MaxViewAttempts == 1
\* startTime values (epoch milliseconds) range over 0..MaxStart
MaxStart == 2
MaxNodes == 2
MaxTargets == 1

(***************************************************************************)
(* Python values.                                                          *)
(***************************************************************************)
None == [tag |-> "None"]

EmptyDict == [k \in {} |-> None]

\* the outcome of a call that raised the named exception
Raised(exception) == [tag |-> "raised", exception |-> exception]

\* dict.get(key, default)
Get(d, key, default) == IF key \in DOMAIN d THEN d[key] ELSE default

RECURSIVE GCD(_, _)
GCD(a, b) == IF b = 0 THEN a ELSE GCD(b, a % b)

Abs(n) == IF n < 0 THEN -n ELSE n

\* the number n/d (d > 0), in lowest terms
Rat(n, d) == LET g == GCD(Abs(n), d) IN [num |-> n \div g, den |-> d \div g]

Zero == Rat(0, 1)

RatAdd(a, b) == Rat(a.num * b.den + b.num * a.den, a.den * b.den)

RatLess(a, b) == a.num * b.den < b.num * a.den

RatLeq(a, b) == a.num * b.den <= b.num * a.den

\* a / n for an integer n > 0
RatDivInt(a, n) == Rat(a.num, a.den * n)

\* a * n for an integer n
RatMulInt(a, n) == Rat(a.num * n, a.den)

\* sum(seq) over a list of numbers; sum([]) is 0
RECURSIVE Sum(_)
Sum(seq) == IF seq = <<>> THEN Zero ELSE RatAdd(seq[1], Sum(Tail(seq)))

\* min(seq), max(seq) over a non-empty list of numbers
RECURSIVE Min(_)
Min(seq) ==
    IF Len(seq) = 1 THEN seq[1]
    ELSE LET m == Min(Tail(seq)) IN IF RatLess(m, seq[1]) THEN m ELSE seq[1]

RECURSIVE Max(_)
Max(seq) ==
    IF Len(seq) = 1 THEN seq[1]
    ELSE LET m == Max(Tail(seq)) IN IF RatLess(seq[1], m) THEN m ELSE seq[1]

\* truth value of an Optional[float]: None and 0.0 are false
TruthyNumber(x) == x # None /\ x.num # 0

\* truth value of an Optional[datetime]: only None is false
TruthyDatetime(x) == x # None

\* truth value of an Optional[int] read from JSON: absent (None) and 0 are false
TruthyInt(d, key) == key \in DOMAIN d /\ d[key] # 0

(***************************************************************************)
(* Ordered dicts as sequences of items.                                    *)
(***************************************************************************)
Item(k, v) == [key |-> k, value |-> v]

Keys(items) == [i \in 1..Len(items) |-> items[i].key]

KeySet(items) == {items[i].key : i \in 1..Len(items)}

Lookup(items, k) == items[CHOOSE i \in 1..Len(items) : items[i].key = k].value

\* defaultdict(list): d[k].append(v)
AppendMutantOverwrite(items, k, v) ==
    IF k \in KeySet(items)
    THEN [i \in 1..Len(items) |->
            IF items[i].key = k THEN Item(k, <<v>>) ELSE items[i]]
    ELSE Append(items, Item(k, <<v>>))

DefaultDictAppend(items, k, v) ==
    IF k \in KeySet(items)
    THEN [i \in 1..Len(items) |->
            IF items[i].key = k THEN Item(k, Append(items[i].value, v))
            ELSE items[i]]
    ELSE Append(items, Item(k, <<v>>))

(***************************************************************************)
(* N8nLoopedNodeAnalyzer.analyze_looped_execution                          *)
(***************************************************************************)
\* datetime.fromtimestamp(start_timestamp / 1000, tz=timezone.utc)
FromTimestamp(ms) == [tag |-> "datetime", epoch_ms |-> ms, tzinfo |-> "utc"]

\* datetime.fromisoformat(s.replace('Z', '+00:00')); an ISO string is
\* modelled by the instant it denotes and its zone suffix ("Z", "+00:00"
\* or "" for a string without zone)
FromIsoFormat(s) ==
    [tag |-> "datetime", epoch_ms |-> s.epoch_ms,
     tzinfo |-> IF s.suffix = "" THEN "naive" ELSE "utc"]

\* (a - b).total_seconds()
TotalSeconds(a, b) == Rat(a.epoch_ms - b.epoch_ms, 1000)

\* lines 429-449: one flattened attempt record
NodeStartTimeMutantZeroDefault(execution) ==
    IF TruthyInt(execution, "startTime")
    THEN FromTimestamp(execution["startTime"])
    ELSE FromTimestamp(0)

NodeStartTime(execution) ==
    IF TruthyInt(execution, "startTime")
    THEN FromTimestamp(execution["startTime"])
    ELSE None

NodeDuration(execution) ==
    IF TruthyInt(execution, "startTime")
    THEN Rat(Get(execution, "executionTime", 0), 1000)
    ELSE None

NodeExecution(execution_id, workflow_name, node_name, execution) ==
    [execution_id |-> execution_id,
     workflow_name |-> workflow_name,
     node_name |-> node_name,
     start_time |-> NodeStartTime(execution),
     duration |-> NodeDuration(execution),
     status |-> Get(execution, "executionStatus", "unknown"),
     execution_index |-> Get(execution, "executionIndex", 0)]

\* lines 416-421: the run data reached through data.resultData.runData,
\* or the empty mapping when the path is absent
RunData(doc) ==
    IF "data" \in DOMAIN doc /\ doc["data"] # EmptyDict
    THEN LET data_field == doc["data"] IN
         IF "resultData" \in DOMAIN data_field
            /\ "runData" \in DOMAIN data_field["resultData"]
         THEN data_field["resultData"]["runData"]
         ELSE <<>>
    ELSE <<>>

\* lines 424-452: node_executions, in run-data order
RECURSIVE NodeExecutions(_, _, _)
NodeExecutions(execution_id, workflow_name, run_data) ==
    IF run_data = <<>> THEN <<>>
    ELSE LET node_name == run_data[1].key
             node_executions_list == run_data[1].value
         IN [i \in 1..Len(node_executions_list) |->
                NodeExecution(execution_id, workflow_name, node_name,
                              node_executions_list[i])]
            \o NodeExecutions(execution_id, workflow_name, Tail(run_data))

\* line 455: node_summary[node_name].append(node_execution), for every
\* attempt in flattening order
RECURSIVE GroupByNode(_, _)
GroupByNode(node_summary, node_executions) ==
    IF node_executions = <<>> THEN node_summary
    ELSE GroupByNode(
            DefaultDictAppend(node_summary, node_executions[1].node_name,
                              node_executions[1]),
            Tail(node_executions))

Durations(executions) ==
    LET defined == SelectSeq(executions, LAMBDA ex : ex.duration # None)
    IN [i \in 1..Len(defined) |-> defined[i].duration]

Statuses(executions) == [i \in 1..Len(executions) |-> executions[i].status]

Count(seq, v) == Len(SelectSeq(seq, LAMBDA s : s = v))

\* line 471
SuccessRateMutantDurationCount(executions) ==
    IF Durations(executions) # <<>>
    THEN RatMulInt(Rat(Count(Statuses(executions), "success"),
                       Len(Durations(executions))), 100)
    ELSE Zero

SuccessRate(executions) ==
    IF Statuses(executions) # <<>>
    THEN RatMulInt(Rat(Count(Statuses(executions), "success"),
                       Len(Statuses(executions))), 100)
    ELSE Zero

\* line 466
AverageTimeMutantAllAttempts(executions) ==
    IF Durations(executions) # <<>>
    THEN RatDivInt(Sum(Durations(executions)), Len(executions))
    ELSE Zero

AverageTime(executions) ==
    IF Durations(executions) # <<>>
    THEN RatDivInt(Sum(Durations(executions)), Len(Durations(executions)))
    ELSE Zero

\* lines 463-473
NodeStats(executions) ==
    [total_executions |-> Len(executions),
     total_time |-> Sum(Durations(executions)),
     average_time |-> AverageTime(executions),
     min_time |-> IF Durations(executions) # <<>>
                  THEN Min(Durations(executions)) ELSE Zero,
     max_time |-> IF Durations(executions) # <<>>
                  THEN Max(Durations(executions)) ELSE Zero,
     successful_executions |-> Count(Statuses(executions), "success"),
     failed_executions |-> Count(Statuses(executions), "error"),
     success_rate |-> SuccessRate(executions),
     executions |-> executions]

\* lines 458-473
NodeSummaryStats(node_summary) ==
    [i \in 1..Len(node_summary) |->
        Item(node_summary[i].key, NodeStats(node_summary[i].value))]

\* lines 390-490 (execution_data is not empty: main() tests it, line 600)
analyze_looped_execution(doc) ==
    LET execution_id == Get(doc, "id", None)
        workflow_name == Get(Get(doc, "workflowData", EmptyDict), "name", "Unknown")
        started_at == Get(doc, "startedAt", None)
        stopped_at == Get(doc, "stoppedAt", None)
        start_time == IF started_at # None THEN FromIsoFormat(started_at) ELSE None
        end_time == IF stopped_at # None THEN FromIsoFormat(stopped_at) ELSE None
        node_executions == NodeExecutions(execution_id, workflow_name, RunData(doc))
        node_summary_stats == NodeSummaryStats(GroupByNode(<<>>, node_executions))
    IN [execution_id |-> execution_id,
        workflow_id |-> Get(doc, "workflowId", None),
        workflow_name |-> workflow_name,
        workflow_data |-> Get(doc, "workflowData", EmptyDict),
        status |-> Get(doc, "status", "unknown"),
        start_time |-> start_time,
        end_time |-> end_time,
        duration |-> IF stopped_at # None /\ start_time # None
                     THEN TotalSeconds(end_time, start_time) ELSE None,
        created_at |-> Get(doc, "createdAt", None),
        has_detailed_data |-> Len(node_executions) > 0,
        node_executions |-> node_executions,
        node_summary |-> node_summary_stats,
        total_nodes |-> Len(node_summary_stats),
        total_node_executions |-> Len(node_executions)]


\* the exception analyze_looped_execution raises on doc, or None: a JSON
\* null (None) under workflowData has no .get (line 392), under
\* data.resultData it supports no `in` (line 420); an absent key raises
\* nothing, it is read with .get or tested with `in`
AnalyzeErrorMutantSubscript(doc) ==
    IF "workflowData" \notin DOMAIN doc THEN Raised("KeyError")
    ELSE IF doc["workflowData"] = None THEN Raised("AttributeError")
    ELSE IF "data" \notin DOMAIN doc THEN Raised("KeyError")
    ELSE IF doc["data"] # EmptyDict
            /\ "resultData" \in DOMAIN doc["data"]
            /\ doc["data"]["resultData"] = None
    THEN Raised("TypeError")
    ELSE None

AnalyzeError(doc) ==
    IF "workflowData" \in DOMAIN doc /\ doc["workflowData"] = None
    THEN Raised("AttributeError")
    ELSE IF "data" \in DOMAIN doc /\ doc["data"] # EmptyDict
            /\ "resultData" \in DOMAIN doc["data"]
            /\ doc["data"]["resultData"] = None
    THEN Raised("TypeError")
    ELSE None

(***************************************************************************)
(* N8nLoopedNodeAnalyzer.create_looped_summary_report                      *)
(***************************************************************************)
\* lines 528-542: the attempts in the order the detailed breakdown lists them
RECURSIVE BreakdownOrder(_)
BreakdownOrder(node_summary) ==
    IF node_summary = <<>> THEN <<>>
    ELSE node_summary[1].value.executions \o BreakdownOrder(Tail(node_summary))

\* line 542: f"{exec_data['duration']:.3f}" raises TypeError for None
RECURSIVE PrintedBreakdown(_)
PrintedBreakdown(executions) ==
    IF executions = <<>> \/ executions[1].duration = None THEN <<>>
    ELSE <<[line |-> "execution",
            node_name |-> executions[1].node_name,
            duration |-> executions[1].duration,
            start_time_str |-> IF TruthyDatetime(executions[1].start_time)
                               THEN executions[1].start_time.epoch_ms
                               ELSE "N/A",
            status |-> executions[1].status]>>
         \o PrintedBreakdown(Tail(executions))

ReportRaises(analysis_data) ==
    \E i \in 1..Len(BreakdownOrder(analysis_data.node_summary)) :
        BreakdownOrder(analysis_data.node_summary)[i].duration = None

\* lines 503-525: the header block and one table row per node
SummaryTable(analysis_data) ==
    <<[line |-> "header", total_node_executions |-> analysis_data.total_node_executions,
       total_nodes |-> analysis_data.total_nodes]>>
    \o [i \in 1..Len(analysis_data.node_summary) |->
          [line |-> "row", node_name |-> analysis_data.node_summary[i].key,
           total_executions |-> analysis_data.node_summary[i].value.total_executions]]

(***************************************************************************)
(* InteractivePlotViewer                                                   *)
(***************************************************************************)
\* line 31
plots == <<"total_time", "avg_time", "execution_count", "success_rate",
           "hierarchical_timeline">>

\* lines 55-62
NodeNames(node_summary) == Keys(node_summary)

DataSeries(node_summary) ==
    [total_time |-> [i \in 1..Len(node_summary) |-> node_summary[i].value.total_time],
     avg_time |-> [i \in 1..Len(node_summary) |-> node_summary[i].value.average_time],
     execution_count |->
        [i \in 1..Len(node_summary) |-> node_summary[i].value.total_executions],
     success_rate |-> [i \in 1..Len(node_summary) |-> node_summary[i].value.success_rate],
     hierarchical_timeline |-> <<>>]

\* lines 99-103: the targets of one source that are recorded
KeptTargets(targets, ids) == SelectSeq(targets, LAMBDA target_id : target_id \in ids)

\* lines 90-96: the entries of node_structure, keyed by node id; a later
\* node with the same id replaces an earlier one
NodeEntry(nodes, id) ==
    LET i == CHOOSE k \in 1..Len(nodes) :
                /\ nodes[k]["id"] = id
                /\ \A m \in (k + 1)..Len(nodes) : nodes[m]["id"] # id
    IN [name |-> Get(nodes[i], "name", nodes[i]["id"]),
        type |-> Get(nodes[i], "type", "unknown"),
        position |-> Get(nodes[i], "position", [x |-> 0, y |-> 0])]

\* lines 82-105; node['id'] raises KeyError for a node without id
extract_workflow_structure(execution_info) ==
    LET workflow_data == Get(execution_info, "workflow_data", EmptyDict)
        nodes == Get(workflow_data, "nodes", <<>>)
        connections == Get(workflow_data, "connections", EmptyDict)
        ids == {nodes[k]["id"] : k \in {m \in 1..Len(nodes) : "id" \in DOMAIN nodes[m]}}
    IN IF \E k \in 1..Len(nodes) : "id" \notin DOMAIN nodes[k]
       THEN [error |-> Raised("KeyError"), node_structure |-> EmptyDict]
       ELSE [error |-> None,
             node_structure |->
                [id \in ids |->
                    NodeEntry(nodes, id) @@
                    [connections |->
                        IF id \in DOMAIN connections
                        THEN KeptTargets(connections[id], ids) ELSE <<>>]]]

\* line 271: list.sort(key=start_time) is a stable ascending sort
InsertMutantDescending(sorted, x) ==
    LET before == SelectSeq(sorted,
                    LAMBDA e : e.start_time.epoch_ms >= x.start_time.epoch_ms)
        after == SelectSeq(sorted,
                    LAMBDA e : e.start_time.epoch_ms < x.start_time.epoch_ms)
    IN before \o <<x>> \o after

Insert(sorted, x) ==
    LET before == SelectSeq(sorted,
                    LAMBDA e : e.start_time.epoch_ms <= x.start_time.epoch_ms)
        after == SelectSeq(sorted,
                    LAMBDA e : e.start_time.epoch_ms > x.start_time.epoch_ms)
    IN before \o <<x>> \o after

RECURSIVE SortByStartTime(_, _)
SortByStartTime(sorted, rest) ==
    IF rest = <<>> THEN sorted
    ELSE SortByStartTime(Insert(sorted, rest[1]), Tail(rest))

\* line 263: the attempts build_execution_timeline keeps
Qualifies(execution) ==
    TruthyDatetime(execution.start_time) /\ TruthyNumber(execution.duration)

\* lines 261-272: one node's timeline entry
NodeTimeline(stats) ==
    LET kept == SelectSeq(stats.executions, Qualifies)
        executions == [i \in 1..Len(kept) |->
                          [start_time |-> kept[i].start_time,
                           duration |-> kept[i].duration,
                           status |-> kept[i].status]]
    IN SortByStartTime(<<>>, executions)

\* lines 256-274
build_execution_timeline(node_summary) ==
    [i \in 1..Len(node_summary) |->
        Item(node_summary[i].key, NodeTimeline(node_summary[i].value))]

\* list[index] with Python's negative indices; IndexError otherwise
PyIndex(seq, i) ==
    IF 0 <= i /\ i < Len(seq) THEN seq[i + 1]
    ELSE IF -Len(seq) <= i /\ i < 0 THEN seq[Len(seq) + i + 1]
    ELSE "IndexError"

\* lines 183-209: the bars of one node's row
TimelineBars(y_pos, node_name, executions, exec_start_time) ==
    [i \in 1..Len(executions) |->
        [node_name |-> node_name,
         y_pos |-> y_pos,
         relative_start |->
            IF TruthyDatetime(executions[i].start_time)
               /\ TruthyDatetime(exec_start_time)
            THEN TotalSeconds(executions[i].start_time, exec_start_time)
            ELSE Zero,
         duration |-> executions[i].duration,
         color |-> IF executions[i].status = "success" THEN "green"
                   ELSE IF executions[i].status = "error" THEN "red"
                   ELSE "orange",
         label |-> RatLess(Rat(1, 10), executions[i].duration)]]

RECURSIVE AllBars(_, _, _)
AllBars(timeline, y_pos, exec_start_time) ==
    IF timeline = <<>> THEN <<>>
    ELSE TimelineBars(y_pos, timeline[1].key, timeline[1].value, exec_start_time)
         \o AllBars(Tail(timeline), y_pos + 1, exec_start_time)

\* lines 222-239: the x-axis limits, None when set_xlim is not called
RECURSIVE AllIntervals(_)
AllIntervals(timeline) ==
    IF timeline = <<>> THEN <<>>
    ELSE timeline[1].value \o AllIntervals(Tail(timeline))

RECURSIVE MaxStartTime(_)
MaxStartTime(intervals) ==
    IF Len(intervals) = 1 THEN intervals[1].start_time
    ELSE LET m == MaxStartTime(Tail(intervals)) IN
         IF m.epoch_ms > intervals[1].start_time.epoch_ms THEN m
         ELSE intervals[1].start_time

XLimits(timeline, exec_start_time) ==
    LET all_start_times == SelectSeq(AllIntervals(timeline),
                                     LAMBDA e : TruthyDatetime(e.start_time))
    IN IF all_start_times # <<>> /\ TruthyDatetime(exec_start_time)
       THEN [lo |-> Zero,
             hi |-> RatAdd(TotalSeconds(MaxStartTime(all_start_times),
                                        exec_start_time), Rat(1, 1))]
       ELSE None

\* lines 158-254
create_hierarchical_timeline(index, analysis_data) ==
    LET timeline == build_execution_timeline(analysis_data.node_summary) IN
    IF timeline = <<>>
    THEN [plot_type |-> "hierarchical_timeline", plot_number |-> index + 1,
          text |-> "No timeline data available"]
    ELSE [plot_type |-> "hierarchical_timeline", plot_number |-> index + 1,
          yticklabels |-> Keys(timeline),
          bars |-> AllBars(timeline, 0, analysis_data.start_time),
          xlim |-> XLimits(timeline, analysis_data.start_time)]

\* lines 120-156
create_bar_chart(index, plot_type, names, series) ==
    [plot_type |-> plot_type, plot_number |-> index + 1,
     xticklabels |-> names, heights |-> series[plot_type]]

\* lines 107-118: the figure drawn for the view at `index`
create_plot(index, analysis_data, names, series) ==
    LET plot_type == PyIndex(plots, index) IN
    IF plot_type = "IndexError" THEN [plot_type |-> "IndexError"]
    ELSE IF plot_type = "hierarchical_timeline"
    THEN create_hierarchical_timeline(index, analysis_data)
    ELSE create_bar_chart(index, plot_type, names, series)

\* line 278
PrevIndexMutantNoWrap(index) == index - 1

PrevIndex(index) == (index - 1) % Len(plots)

\* line 284
NextIndexMutantNoWrap(index) == index + 1

NextIndex(index) == (index + 1) % Len(plots)

\* lines 288-295: the command a key is bound to
KeyCommandMutantDefaultNext(key) ==
    IF key = "left" \/ key = "a" THEN "prev_plot"
    ELSE IF key = "q" \/ key = "escape" THEN "close"
    ELSE "next_plot"

KeyCommand(key) ==
    IF key = "left" \/ key = "a" THEN "prev_plot"
    ELSE IF key = "right" \/ key = "d" THEN "next_plot"
    ELSE IF key = "q" \/ key = "escape" THEN "close"
    ELSE "none"


(***************************************************************************)
(* Input documents.                                                        *)
(***************************************************************************)
Names == {"A", "B"}

Keyboard == {"left", "a", "right", "d", "q", "escape", "x"}

\* a key of a JSON object that may be absent: <<>> or <<value>>
Field(key, opt) == IF opt = <<>> THEN EmptyDict ELSE key :> opt[1]

OptStartTime == {<<>>} \cup {<<t>> : t \in 0..MaxStart}

OptExecutionTime == {<<>>, <<250>>}

\* an absent status reads as 'unknown' (line 431)
OptExecutionStatus == {<<>>, <<"success">>}

RawExecutions ==
    {Field("startTime", st) @@ Field("executionTime", et)
        @@ Field("executionStatus", es) :
        st \in OptStartTime, et \in OptExecutionTime, es \in OptExecutionStatus}

ExecutionLists(k) == [1..k -> RawExecutions]

Iso(ms, suffix) == [epoch_ms |-> ms, suffix |-> suffix]

BaseDocument ==
    [id |-> 1, workflowId |-> "w1", workflowData |-> [name |-> "wf"],
     status |-> "success", startedAt |-> Iso(0, "Z")]

\* documents in which the path data.resultData.runData is cut short
PartialDocuments ==
    {BaseDocument,
     BaseDocument @@ ("data" :> [resultData |-> EmptyDict]),
     BaseDocument @@ ("data" :> [executionData |-> EmptyDict])}

WithRunData(run_data) ==
    BaseDocument @@ ("data" :> [resultData |-> [runData |-> run_data]])

\* doc is a document whose runData, a mapping over Names, holds at most n
\* attempts in all, or a document without runData
IsDocument(n, doc) ==
    \/ doc \in PartialDocuments
    \/ doc = WithRunData(<<>>)
    \/ \E a \in Names, k \in 0..n : \E l \in ExecutionLists(k) :
          doc = WithRunData(<<Item(a, l)>>)
    \/ \E p \in {q \in Names \X Names : q[1] # q[2]}, k1 \in 0..n :
          \E k2 \in 0..(n - k1) :
             \E l1 \in ExecutionLists(k1), l2 \in ExecutionLists(k2) :
                doc = WithRunData(<<Item(p[1], l1), Item(p[2], l2)>>)

\* one attempt of node "A" that carries both time fields
TimedRunData == <<Item("A", <<[startTime |-> 1, executionTime |-> 250]>>)>>

\* documents in which the header keys and the levels of the path
\* data.resultData.runData are absent, present or null
OptWorkflowData == {<<>>, <<[name |-> "wf"]>>, <<None>>}

OptStartedAt == {<<>>, <<Iso(0, "Z")>>}

OptStoppedAt == {<<>>, <<Iso(3, "Z")>>}

OptData ==
    {<<>>, <<EmptyDict>>, <<[executionData |-> EmptyDict]>>,
     <<[resultData |-> EmptyDict]>>, <<[resultData |-> None]>>,
     <<[resultData |-> [runData |-> TimedRunData]]>>}

HeaderDocuments ==
    {[id |-> 1, workflowId |-> "w1", status |-> "success"]
        @@ Field("workflowData", wd) @@ Field("startedAt", sa)
        @@ Field("stoppedAt", so) @@ Field("data", d) :
        wd \in OptWorkflowData, sa \in OptStartedAt, so \in OptStoppedAt,
        d \in OptData}

\* workflow definitions: a node list and a connection map over node ids
NodeIds == {"n1", "n2"}

UnknownId == "n9"

\* a node carries an id, a name or both
RawNodes ==
    {[name |-> "Start"]} \cup
    {("id" :> id) @@ Field("name", name) :
        id \in NodeIds, name \in {<<>>, <<"Start">>}}

NodeLists(k) == [1..k -> RawNodes]

OptTargets ==
    {<<>>} \cup
    {<<targets>> :
        targets \in UNION {[1..k -> NodeIds \cup {UnknownId}] : k \in 0..MaxTargets}}

ConnectionMaps ==
    {Field("n1", known) @@ Field(UnknownId, unknown) :
        known \in OptTargets, unknown \in OptTargets}

WithWorkflow(nodes, connections) ==
    [id |-> 1, workflowId |-> "w1", status |-> "success",
     startedAt |-> Iso(0, "Z"),
     workflowData |-> [name |-> "wf", nodes |-> nodes,
                       connections |-> connections],
     data |-> [resultData |-> [runData |-> TimedRunData]]]

IsWorkflowDocument(doc) ==
    \E k \in 0..MaxNodes : \E nodes \in NodeLists(k) :
        \E connections \in ConnectionMaps :
            doc = WithWorkflow(nodes, connections)

\* documents whose attempts all qualify for the timeline, some of them
\* lasting longer than a second, under a start of execution that is
\* absent, zoned or without zone
TimedExecutions ==
    {[startTime |-> st, executionTime |-> et, executionStatus |-> "success"] :
        st \in 1..MaxStart, et \in {250, 1500}}

OptExecutionStart == {<<>>, <<Iso(0, "Z")>>, <<Iso(0, "")>>}

WithTimeline(started_at, executions) ==
    [id |-> 1, workflowId |-> "w1", workflowData |-> [name |-> "wf"],
     status |-> "success"]
        @@ Field("startedAt", started_at)
        @@ ("data" :> [resultData |-> [runData |-> <<Item("A", executions)>>]])

IsTimelineDocument(n, doc) ==
    \E k \in 1..n : \E executions \in [1..k -> TimedExecutions] :
        \E started_at \in OptExecutionStart :
            doc = WithTimeline(started_at, executions)

(***************************************************************************)
(* The program: main() and the viewer's event handlers.                    *)
(***************************************************************************)
Blank == [plot_type |-> "none"]

InitWith(n) ==
    /\ pc = "fetched"
    /\ IsDocument(n, execution_data)
    /\ analysis = None
    /\ output = <<>>
    /\ node_names = <<>>
    /\ data = None
    /\ workflow_structure = None
    /\ current_plot = 0
    /\ figure = Blank
    /\ timeline_data = None
    /\ last_key = "none"
    /\ advances = 0

Init == InitWith(MaxViewAttempts)

\* line 602; an exception raised by the analysis ends the program
analyze ==
    /\ pc = "fetched"
    /\ IF AnalyzeError(execution_data) = None
       THEN /\ analysis' = analyze_looped_execution(execution_data)
            /\ pc' = "analyzed"
            /\ output' = output
       ELSE /\ analysis' = analysis
            /\ pc' = "raised"
            /\ output' = Append(output, [line |-> AnalyzeError(execution_data).exception])
    /\ UNCHANGED <<execution_data, node_names, data,
                   workflow_structure, current_plot,
                   figure, timeline_data, last_key, advances>>

\* line 603; an exception raised by the report ends the program
report ==
    /\ pc = "analyzed"
    /\ output' = output \o SummaryTable(analysis)
                   \o PrintedBreakdown(BreakdownOrder(analysis.node_summary))
                   \o (IF ReportRaises(analysis)
                       THEN <<[line |-> "TypeError"]>> ELSE <<>>)
    /\ pc' = IF ReportRaises(analysis) THEN "crashed" ELSE "reported"
    /\ UNCHANGED <<execution_data, analysis, node_names, data,
                   workflow_structure, current_plot,
                   figure, timeline_data, last_key, advances>>

\* lines 551-553
no_visualization ==
    /\ pc = "reported"
    /\ analysis.node_summary = <<>>
    /\ output' = Append(output,
                        [line |-> "No node summary data available for plotting"])
    /\ pc' = "done"
    /\ UNCHANGED <<execution_data, analysis, node_names, data,
                   workflow_structure, current_plot,
                   figure, timeline_data, last_key, advances>>

\* lines 555-566, 27-62, 297-307: the viewer is constructed and shown
show ==
    /\ pc = "reported"
    /\ analysis.node_summary # <<>>
    /\ node_names' = NodeNames(analysis.node_summary)
    /\ data' = DataSeries(analysis.node_summary)
    /\ workflow_structure' = extract_workflow_structure(analysis)
    /\ current_plot' = 0
    /\ figure' = create_plot(0, analysis, NodeNames(analysis.node_summary),
                             DataSeries(analysis.node_summary))
    /\ pc' = "viewing"
    /\ UNCHANGED <<execution_data, analysis, output, timeline_data, last_key,
                   advances>>

\* what a redraw leaves of the last timeline built
TimelineAfter(index) ==
    IF PyIndex(plots, index) = "hierarchical_timeline"
    THEN build_execution_timeline(analysis.node_summary)
    ELSE timeline_data

\* lines 276-280
prev_plot ==
    /\ current_plot' = PrevIndex(current_plot)
    /\ figure' = create_plot(PrevIndex(current_plot), analysis, node_names, data)
    /\ timeline_data' = TimelineAfter(PrevIndex(current_plot))
    /\ advances' = IF PrevIndex(current_plot) = 0 THEN 0 ELSE -1

\* lines 282-286
next_plot ==
    /\ current_plot' = NextIndex(current_plot)
    /\ figure' = create_plot(NextIndex(current_plot), analysis, node_names, data)
    /\ timeline_data' = TimelineAfter(NextIndex(current_plot))
    /\ advances' = IF advances = -1 THEN -1
                   ELSE IF advances = Len(plots) THEN 1
                   ELSE advances + 1

\* lines 288-295
on_key(key) ==
    /\ pc = "viewing"
    /\ last_key' = key
    /\ CASE KeyCommand(key) = "prev_plot" -> prev_plot /\ pc' = pc
         [] KeyCommand(key) = "next_plot" -> next_plot /\ pc' = pc
         [] KeyCommand(key) = "close" ->
                /\ pc' = "closed"
                /\ figure' = Blank
                /\ advances' = IF current_plot = 0 THEN 0 ELSE -1
                /\ UNCHANGED <<current_plot, timeline_data>>
         [] OTHER ->
                /\ advances' = IF current_plot = 0 THEN 0 ELSE -1
                /\ UNCHANGED <<pc, current_plot, figure, timeline_data>>
    /\ UNCHANGED <<execution_data, analysis, output, node_names, data,
                   workflow_structure>>

key_press == \E key \in Keyboard : on_key(key)

Next == analyze \/ report \/ no_visualization \/ show \/ key_press

Spec == Init /\ [][Next]_vars

(***************************************************************************)
(* The analysis and the timeline builder applied to every document.        *)
(***************************************************************************)
InitAnalysis ==
    /\ pc = "fetched"
    /\ \/ IsDocument(MaxAttempts, execution_data)
       \/ execution_data \in HeaderDocuments
       \/ IsWorkflowDocument(execution_data)
       \/ IsTimelineDocument(MaxAttempts, execution_data)
    /\ analysis = None
    /\ output = <<>>
    /\ node_names = <<>>
    /\ data = None
    /\ workflow_structure = None
    /\ current_plot = 0
    /\ figure = Blank
    /\ timeline_data = None
    /\ last_key = "none"
    /\ advances = 0

\* lines 27-65: InteractivePlotViewer(analysis['node_summary'], analysis);
\* an exception raised by the topology extractor leaves the constructor
construct_viewer ==
    /\ pc = "analyzed"
    /\ node_names' = NodeNames(analysis.node_summary)
    /\ data' = DataSeries(analysis.node_summary)
    /\ workflow_structure' = extract_workflow_structure(analysis)
    /\ current_plot' = 0
    /\ IF extract_workflow_structure(analysis).error = None
       THEN /\ pc' = "constructed"
            /\ output' = output
       ELSE /\ pc' = "crashed"
            /\ output' = Append(output,
                    [line |-> extract_workflow_structure(analysis).error.exception])
    /\ UNCHANGED <<execution_data, analysis, figure, timeline_data,
                   last_key, advances>>

\* lines 256-274: viewer.build_execution_timeline()
build_timeline ==
    /\ pc = "constructed"
    /\ timeline_data' = build_execution_timeline(analysis.node_summary)
    /\ pc' = "built"
    /\ UNCHANGED <<execution_data, analysis, output, node_names, data,
                   workflow_structure, current_plot, figure, last_key, advances>>

\* lines 158-254: viewer.create_hierarchical_timeline(), which builds the
\* timeline again (line 162)
draw_timeline ==
    /\ pc = "built"
    /\ timeline_data' = build_execution_timeline(analysis.node_summary)
    /\ figure' = create_hierarchical_timeline(Len(plots) - 1, analysis)
    /\ pc' = "drawn"
    /\ UNCHANGED <<execution_data, analysis, output, node_names, data,
                   workflow_structure, current_plot, last_key, advances>>

NextAnalysis == analyze \/ construct_viewer \/ build_timeline \/ draw_timeline

SpecAnalysis == InitAnalysis /\ [][NextAnalysis]_vars


(***************************************************************************)
(* Properties of the view navigation, checked under Spec.                  *)
(***************************************************************************)
NavigationKeys == {"left", "a", "right", "d"}

Reported(condition) == \E i \in 1..Len(output) : output[i].line = condition

\* C1: cyclic navigation.  With N = Len(plots) views and the index starting
\* at 0, N consecutive next_plot operations bring the index back to 0, and
\* a single prev_plot from index 0 lands on index N - 1.
C1_CyclicNavigation ==
    /\ [](advances = Len(plots) => current_plot = 0)
    /\ [][(pc = "viewing" /\ current_plot = 0 /\ last_key' \in {"left", "a"})
            => current_plot' = Len(plots) - 1]_vars

C1_Witness == advances = Len(plots) /\ current_plot = 0

\* C2: in every state reached by any sequence of key presses the current
\* view index is in 0..N-1, and the view create_plot looked up is the
\* catalogue entry at that index: no lookup fails.
C2_IndexInRange ==
    pc \in {"viewing", "closed"} =>
        /\ current_plot \in 0..(Len(plots) - 1)
        /\ pc = "viewing" => figure.plot_type = plots[current_plot + 1]

C2_Witness ==
    pc = "viewing" /\ last_key = "left" /\ current_plot = Len(plots) - 1

Analysed == pc \notin {"fetched", "raised"}

Summary == analysis.node_summary

\* the raw attempts of the run data, in flattening order
RECURSIVE RawAttempts(_)
RawAttempts(run_data) ==
    IF run_data = <<>> THEN <<>>
    ELSE run_data[1].value \o RawAttempts(Tail(run_data))

\* the flattened attempt records that carry node name n
RecordsOf(n) == SelectSeq(analysis.node_executions, LAMBDA ex : ex.node_name = n)

RECURSIVE SumOfCounts(_)
SumOfCounts(node_summary) ==
    IF node_summary = <<>> THEN 0
    ELSE node_summary[1].value.total_executions + SumOfCounts(Tail(node_summary))

\* C4: each node's total_executions is the number of flattened attempt
\* records carrying that node name and the length of its executions list,
\* and total_node_executions is the sum of total_executions over the nodes.
C4_CountsConsistent ==
    Analysed =>
        /\ \A i \in 1..Len(Summary) :
              /\ Summary[i].value.total_executions = Len(RecordsOf(Summary[i].key))
              /\ Summary[i].value.total_executions = Len(Summary[i].value.executions)
              /\ Summary[i].value.executions = RecordsOf(Summary[i].key)
        /\ analysis.total_node_executions = SumOfCounts(Summary)
        /\ analysis.total_node_executions = Len(RawAttempts(RunData(execution_data)))

C4_Witness ==
    /\ Analysed
    /\ \E i \in 1..Len(Summary) : Summary[i].value.total_executions = MaxAttempts

Successes(executions) ==
    Cardinality({j \in 1..Len(executions) : executions[j].status = "success"})

\* C5: success_rate is the number of attempts with status 'success' divided
\* by the number of all attempts of the node (attempts with undefined
\* duration included) times 100, lies in [0,100], and is 0 when there are
\* no attempts.
C5_SuccessRate ==
    /\ SuccessRate(<<>>) = Zero
    /\ Analysed =>
         \A i \in 1..Len(Summary) :
            LET stats == Summary[i].value
                rate == stats.success_rate
            IN /\ rate.num * Len(stats.executions)
                    = 100 * Successes(stats.executions) * rate.den
               /\ 0 <= rate.num /\ rate.num <= 100 * rate.den
               /\ Len(stats.executions) = 0 => rate = Zero

C5_Witness ==
    /\ Analysed
    /\ \E i \in 1..Len(Summary) :
          LET executions == Summary[i].value.executions IN
          /\ \E j \in 1..Len(executions) :
                executions[j].duration = None /\ executions[j].status = "success"
          /\ \E j \in 1..Len(executions) : executions[j].duration # None
          /\ Summary[i].value.success_rate = Rat(100, 1)

\* the indices of the attempts whose duration is defined
DefinedDurations(executions) ==
    {j \in 1..Len(executions) : executions[j].duration # None}

\* the durations of the attempts indexed by S, added up, in milliseconds
RECURSIVE MillisecondsOver(_, _)
MillisecondsOver(executions, S) ==
    IF S = {} THEN 0
    ELSE LET j == CHOOSE k \in S : TRUE IN
         (executions[j].duration.num * 1000) \div executions[j].duration.den
            + MillisecondsOver(executions, S \ {j})

\* C6: total_time is the sum of the durations of exactly the attempts whose
\* duration is defined; average_time is total_time divided by the number
\* of those attempts, or 0 (as are total, min and max) when there are none;
\* an attempt with a start time and a duration of zero is one of them.
C6_TimeAggregates ==
    Analysed =>
        \A i \in 1..Len(Summary) :
           LET stats == Summary[i].value
               defined == DefinedDurations(stats.executions)
               ms == MillisecondsOver(stats.executions, defined)
           IN /\ stats.total_time.num * 1000 = ms * stats.total_time.den
              /\ defined # {} =>
                    /\ stats.average_time.num * 1000 * Cardinality(defined)
                          = ms * stats.average_time.den
                    /\ \E j \in defined : stats.min_time = stats.executions[j].duration
                    /\ \E j \in defined : stats.max_time = stats.executions[j].duration
                    /\ \A j \in defined :
                          /\ RatLeq(stats.min_time, stats.executions[j].duration)
                          /\ RatLeq(stats.executions[j].duration, stats.max_time)
              /\ defined = {} =>
                    /\ stats.total_time = Zero /\ stats.average_time = Zero
                    /\ stats.min_time = Zero /\ stats.max_time = Zero

C6_Witness ==
    /\ Analysed
    /\ \E i \in 1..Len(Summary) :
          LET executions == Summary[i].value.executions IN
          /\ \E j \in 1..Len(executions) :
                executions[j].start_time # None /\ executions[j].duration = Zero
          /\ \E j \in 1..Len(executions) : TruthyNumber(executions[j].duration)
          /\ Summary[i].value.average_time = Rat(1, 8)

\* C7 as stated: for every flattened attempt record start_time is undefined
\* exactly when duration is; a raw entry without start timestamp gets both
\* undefined, a raw entry with a start timestamp gets both defined.
C7_StartAndDurationTogether ==
    Analysed =>
        LET raw == RawAttempts(RunData(execution_data)) IN
        \A j \in 1..Len(analysis.node_executions) :
           LET ex == analysis.node_executions[j] IN
           /\ ex.start_time = None <=> ex.duration = None
           /\ "startTime" \notin DOMAIN raw[j] =>
                 ex.start_time = None /\ ex.duration = None
           /\ "startTime" \in DOMAIN raw[j] =>
                 ex.start_time # None /\ ex.duration # None

\* the attempts of a node with both start_time and duration defined, as
\* timeline entries
DefinedEntries(executions) ==
    LET kept == SelectSeq(executions,
                    LAMBDA ex : ex.start_time # None /\ ex.duration # None)
    IN [j \in 1..Len(kept) |->
          [start_time |-> kept[j].start_time, duration |-> kept[j].duration,
           status |-> kept[j].status]]

Occurrences(seq, e) == Cardinality({j \in 1..Len(seq) : seq[j] = e})

SameEntries(s, t) ==
    /\ Len(s) = Len(t)
    /\ \A j \in 1..Len(s) : Occurrences(s, s[j]) = Occurrences(t, s[j])

\* C8 as stated: the timeline built for a node holds exactly the node's
\* attempts with both start_time and duration defined; an attempt with a
\* start time and a duration of zero is among them.
C8_TimelineHoldsDefinedAttempts ==
    pc = "built" =>
        \A i \in 1..Len(timeline_data) :
           SameEntries(timeline_data[i].value,
                       DefinedEntries(Lookup(Summary, timeline_data[i].key).executions))

\* C9 as stated: a node none of whose attempts has both start_time and
\* duration defined has no key in the timeline mapping, and has an entry
\* in every bar-chart data series.
C9_EmptyNodesOmitted ==
    pc = "built" =>
        \A i \in 1..Len(Summary) :
           DefinedEntries(Summary[i].value.executions) = <<>> =>
              /\ Summary[i].key \notin KeySet(timeline_data)
              /\ node_names[i] = Summary[i].key
              /\ \A series \in {"total_time", "avg_time", "execution_count",
                                "success_rate"} :
                    Len(data[series]) = Len(node_names)

\* lines 189-201: the relative start seconds of a timeline interval
RelativeStart(interval) ==
    IF TruthyDatetime(analysis.start_time)
    THEN TotalSeconds(interval.start_time, analysis.start_time)
    ELSE Zero

\* C10: for every node of the timeline mapping the intervals are ordered
\* non-decreasingly by start instant, hence by relative start seconds.
C10_TimelineSorted ==
    pc = "built" =>
        \A i \in 1..Len(timeline_data) :
           LET intervals == timeline_data[i].value IN
           \A j \in 1..(Len(intervals) - 1) :
              /\ intervals[j].start_time.epoch_ms <= intervals[j + 1].start_time.epoch_ms
              /\ RatLeq(RelativeStart(intervals[j]), RelativeStart(intervals[j + 1]))

\* a node whose qualifying attempts are out of order in the raw run data
C10_Witness ==
    /\ pc = "built"
    /\ \E i \in 1..Len(Summary) :
          LET executions == Summary[i].value.executions IN
          \E j \in 1..(Len(executions) - 1) :
             /\ Qualifies(executions[j]) /\ Qualifies(executions[j + 1])
             /\ executions[j].start_time.epoch_ms > executions[j + 1].start_time.epoch_ms

\* the nested paths of a document
Absent(doc, key) == key \notin DOMAIN doc

RunDataAbsent(doc) ==
    \/ Absent(doc, "data")
    \/ Absent(doc["data"], "resultData")
    \/ Absent(doc["data"]["resultData"], "runData")

SomePathAbsent(doc) ==
    \/ Absent(doc, "workflowData")
    \/ Absent(doc, "startedAt")
    \/ Absent(doc, "stoppedAt")
    \/ RunDataAbsent(doc)

\* a path that is present holds a JSON null
SomePathNull(doc) ==
    \/ ~Absent(doc, "workflowData") /\ doc["workflowData"] = None
    \/ /\ ~Absent(doc, "data")
       /\ ~Absent(doc["data"], "resultData")
       /\ doc["data"]["resultData"] = None

DefinedNodes == Get(Get(execution_data, "workflowData", EmptyDict), "nodes", <<>>)

DefinedConnections ==
    Get(Get(execution_data, "workflowData", EmptyDict), "connections", EmptyDict)

ListedIds ==
    {DefinedNodes[k]["id"] :
        k \in {m \in 1..Len(DefinedNodes) : ~Absent(DefinedNodes[m], "id")}}

Constructed == pc \in {"constructed", "built", "drawn", "crashed"}

\* C12: for every workflow definition the topology extractor raises no
\* error; every edge it records goes from an id of the node list to an id of
\* the node list, the recorded edges of a listed source are its connections
\* without the targets that are not listed, and a node without a name has
\* its id as display name.
C12_TopologyWithinNodeList ==
    Constructed =>
        /\ workflow_structure.error = None
        /\ DOMAIN workflow_structure.node_structure = ListedIds
        /\ \A id \in ListedIds :
              LET recorded == workflow_structure.node_structure[id].connections IN
              /\ \A i \in 1..Len(recorded) : recorded[i] \in ListedIds
              /\ recorded =
                    IF Absent(DefinedConnections, id) THEN <<>>
                    ELSE SelectSeq(DefinedConnections[id],
                                   LAMBDA target_id : target_id \in ListedIds)
        /\ \A k \in 1..Len(DefinedNodes) :
              (/\ Absent(DefinedNodes[k], "name")
               /\ \A m \in (k + 1)..Len(DefinedNodes) :
                     DefinedNodes[m]["id"] # DefinedNodes[k]["id"]) =>
                 workflow_structure.node_structure[DefinedNodes[k]["id"]].name
                    = DefinedNodes[k]["id"]

\* the right edge of a bar of the drawn timeline
BarEnd(bar) == RatAdd(bar.relative_start, bar.duration)

MaxBarEnd(bars) ==
    CHOOSE end \in {BarEnd(bars[i]) : i \in 1..Len(bars)} :
        \A i \in 1..Len(bars) : RatLeq(BarEnd(bars[i]), end)

Drawn == pc = "drawn" /\ "xlim" \in DOMAIN figure /\ figure.xlim # None

\* C13: the upper x limit of the timeline is the maximum over all bars of
\* (relative start + duration) plus the fixed margin of one second, so every
\* bar ends within the visible span.
C13_SpanCoversEveryInterval ==
    Drawn =>
        /\ figure.xlim.hi = RatAdd(MaxBarEnd(figure.bars), Rat(1, 1))
        /\ \A i \in 1..Len(figure.bars) :
              RatLeq(BarEnd(figure.bars[i]), figure.xlim.hi)

(***************************************************************************)
(* Properties of the report, checked under Spec.                           *)
(***************************************************************************)
\* the document holds an attempt without start timestamp
HasUntimedAttempt ==
    \E i \in 1..Len(RawAttempts(RunData(execution_data))) :
        Absent(RawAttempts(RunData(execution_data))[i], "startTime")

\* the lines of the detailed breakdown that list an attempt of node n
ListedAttempts(n) ==
    SelectSeq(output, LAMBDA l : l.line = "execution" /\ l.node_name = n)

\* C14: for every document that holds an attempt without start timestamp,
\* analysis followed by the summary report completes without raising; the
\* attempt is counted in its node's total_executions and every attempt of
\* the node is listed in the per-node breakdown.
C14_UntimedAttemptReported ==
    (pc \notin {"fetched", "analyzed"} /\ HasUntimedAttempt) =>
        /\ pc \notin {"raised", "crashed"}
        /\ \A i \in 1..Len(Summary) :
              /\ Summary[i].value.total_executions = Len(RecordsOf(Summary[i].key))
              /\ Len(ListedAttempts(Summary[i].key))
                    = Summary[i].value.total_executions
=============================================================================
